---- MODULE Spec2Model ----
(* A model of jsonLoader.py: the in-memory student store (the global `data`),
   the JSON file it is loaded from and saved to, and CSV import/export.
   Texts are sequences of one-character strings, so that parsing (int,
   strip, lower) and formatting (str, json.dump) are computed, not assumed.

   Spec is the record store and the persistence adapter from the start of
   the program: create, delete, save and load in any order, with the JSON
   file removed or damaged from outside in between.  SpecCsv applies one
   CSV operation (export, merge import, replace import) to each of a set of
   states of the store and the file that Spec leads to, with every CSV file
   of up to MaxRows rows drawn from RowPool; after an export it goes on to
   import the exported file into an emptied store.  SpecUpdate applies one
   change_student_info to the same states.  SpecShell is the interactive
   shell, main() onwards, stepping from one blocking input to the next. *)
EXTENDS Integers, Sequences, FiniteSets

VARIABLES data, file, last, pc

vars == <<data, file, last, pc>>

(* ------------------------------------------------------------------ *)
(* Bounds of the model                                                  *)
(* ------------------------------------------------------------------ *)

\* most records make_new_student lets the in-memory store grow to
MaxStudents == 2
\* most data rows of an imported CSV file
MaxRows == 2
\* largest id an import made in the shell may give
MaxId == 3

(* ------------------------------------------------------------------ *)
(* Text: str.strip, str.lower, int(), str()                             *)
(* ------------------------------------------------------------------ *)

Digits == <<"0", "1", "2", "3", "4", "5", "6", "7", "8", "9">>

IsDigit(c) == \E i \in 1..10 : Digits[i] = c

DigitVal(c) == (CHOOSE i \in 1..10 : Digits[i] = c) - 1

IsSpace(c) == c = " "

RECURSIVE lstrip(_)
lstrip(t) == IF t # <<>> /\ IsSpace(Head(t)) THEN lstrip(Tail(t)) ELSE t

RECURSIVE rstrip(_)
rstrip(t) ==
  IF t # <<>> /\ IsSpace(t[Len(t)]) THEN rstrip(SubSeq(t, 1, Len(t) - 1)) ELSE t

\* str.strip()
strip(t) == rstrip(lstrip(t))

UpperCase ==
  << "A", "B", "C", "D", "E", "F", "G", "H", "I", "J", "K", "L", "M",
     "N", "O", "P", "Q", "R", "S", "T", "U", "V", "W", "X", "Y", "Z" >>

LowerCase ==
  << "a", "b", "c", "d", "e", "f", "g", "h", "i", "j", "k", "l", "m",
     "n", "o", "p", "q", "r", "s", "t", "u", "v", "w", "x", "y", "z" >>

LowerOf(c) ==
  IF \E i \in 1..26 : UpperCase[i] = c
  THEN LowerCase[CHOOSE i \in 1..26 : UpperCase[i] = c]
  ELSE c

\* str.lower()
lower(t) == [i \in 1..Len(t) |-> LowerOf(t[i])]

RECURSIVE DigitsValue(_)
DigitsValue(t) ==
  IF t = <<>> THEN 0
  ELSE 10 * DigitsValue(SubSeq(t, 1, Len(t) - 1)) + DigitVal(t[Len(t)])

AllDigits(t) == t # <<>> /\ \A i \in 1..Len(t) : IsDigit(t[i])

\* int(text): surrounding whitespace is dropped, one sign is accepted;
\* ok = FALSE stands for ValueError
int(t) ==
  LET s == strip(t)
      neg == s # <<>> /\ Head(s) = "-"
      body == IF s # <<>> /\ Head(s) \in {"-", "+"} THEN Tail(s) ELSE s
  IN IF AllDigits(body)
     THEN [ok |-> TRUE, val |-> IF neg THEN 0 - DigitsValue(body) ELSE DigitsValue(body)]
     ELSE [ok |-> FALSE, val |-> 0]

RECURSIVE NatText(_)
NatText(n) ==
  IF n < 10 THEN <<Digits[n + 1]>>
  ELSE Append(NatText(n \div 10), Digits[(n % 10) + 1])

\* str(n) of an integer, as an f-string, csv.writer and json.dump write it
str(n) == IF n < 0 THEN <<"-">> \o NatText(0 - n) ELSE NatText(n)

(* ------------------------------------------------------------------ *)
(* Students and the JSON document                                       *)
(* ------------------------------------------------------------------ *)

Student(id, name, age, full_time) ==
  [id |-> id, name |-> name, age |-> age, full_time |-> full_time]

Ids(students) == {students[i].id : i \in 1..Len(students)}

UniqueIds(students) ==
  \A i, j \in 1..Len(students) : students[i].id = students[j].id => i = j

JsonTrue == <<"t", "r", "u", "e">>
JsonFalse == <<"f", "a", "l", "s", "e">>

\* json_dump writing booleans the way str() does, True and False
json_dump_str_bool(students) ==
  [i \in 1..Len(students) |->
     [id |-> str(students[i].id),
      name |-> students[i].name,
      age |-> str(students[i].age),
      full_time |-> IF students[i].full_time
                    THEN <<"T", "r", "u", "e">> ELSE <<"F", "a", "l", "s", "e">>]]

\* json.dump(data, f, indent=4): numbers in decimal, booleans as true/false,
\* the keys of each object in insertion order id, name, age, full-time
json_dump(students) ==
  [i \in 1..Len(students) |->
     [id |-> str(students[i].id),
      name |-> students[i].name,
      age |-> str(students[i].age),
      full_time |-> IF students[i].full_time THEN JsonTrue ELSE JsonFalse]]

\* a JSON number token read back as an int
json_number(t) ==
  IF t # <<>> /\ Head(t) = "-" THEN 0 - DigitsValue(Tail(t)) ELSE DigitsValue(t)

\* json.load(f) of a well-formed document
json_load(doc) ==
  [i \in 1..Len(doc) |->
     Student(json_number(doc[i].id), doc[i].name, json_number(doc[i].age),
             doc[i].full_time = JsonTrue)]

MissingFile == [kind |-> "missing", doc |-> <<>>]
CorruptFile == [kind |-> "corrupt", doc |-> <<>>]
ValidFile(doc) == [kind |-> "valid", doc |-> doc]

\* save_data: the file is overwritten with the dump of the in-memory store
save_data(students) == ValidFile(json_dump(students))

\* load_data treating a decode error as the module-level load does: the
\* store is emptied
load_data_resets(students, f) ==
  IF f.kind = "valid" THEN json_load(f.doc) ELSE <<>>

\* load_data, the in-memory store it leaves: the previous one on a decode
\* error, an empty one when the file is missing
load_data(students, f) ==
  CASE f.kind = "valid" -> json_load(f.doc)
    [] f.kind = "missing" -> <<>>
    [] OTHER -> students

\* load_data leaving a missing file missing: the new structure is not saved
load_data_file_not_created(students, f) == f

\* load_data, the file it leaves: created empty when it was missing
load_data_file(students, f) ==
  IF f.kind = "missing" THEN save_data(<<>>) ELSE f

(* ------------------------------------------------------------------ *)
(* Record store                                                         *)
(* ------------------------------------------------------------------ *)

\* the id make_new_student gives the new record
new_id(students) == Len(students) + 1

make_new_student(students, name, age, full_time) ==
  Student(new_id(students), name, age, full_time)

\* find_student: the index of the first record with that id, 0 for None
find_student(students, student_id) ==
  IF \E i \in 1..Len(students) : students[i].id = student_id
  THEN CHOOSE i \in 1..Len(students) :
         /\ students[i].id = student_id
         /\ \A j \in 1..(i - 1) : students[j].id # student_id
  ELSE 0

\* change_student_info changing every record that has the id
change_every_student_info(students, student_id, name, age, full_time) ==
  [students |->
     [k \in 1..Len(students) |->
        IF students[k].id # student_id THEN students[k]
        ELSE Student(students[k].id,
                     IF name # <<>> THEN name[1] ELSE students[k].name,
                     IF age # <<>> THEN age[1] ELSE students[k].age,
                     IF full_time # <<>> THEN full_time[1]
                     ELSE students[k].full_time)],
   ret |-> IF find_student(students, student_id) = 0 THEN <<>>
           ELSE <<students[find_student(students, student_id)]>>]

\* change_student_info(student_id, name, age, full_time): an argument left
\* at None is <<>>, a given one is <<value>>; the result is the store and the
\* returned record (<<>> for None)
change_student_info(students, student_id, name, age, full_time) ==
  LET i == find_student(students, student_id)
  IN IF i = 0 THEN [students |-> students, ret |-> <<>>]
     ELSE LET s1 == IF name # <<>>
                    THEN [students[i] EXCEPT !.name = name[1]]
                    ELSE students[i]
              s2 == IF age # <<>> THEN [s1 EXCEPT !.age = age[1]] ELSE s1
              s3 == IF full_time # <<>>
                    THEN [s2 EXCEPT !.full_time = full_time[1]]
                    ELSE s2
          IN [students |-> [students EXCEPT ![i] = s3], ret |-> <<s3>>]

\* remove_student with list.remove's effect: only the first match goes
RECURSIVE remove_first_student(_, _)
remove_first_student(students, student_id) ==
  IF students = <<>> THEN <<>>
  ELSE IF Head(students).id # student_id
       THEN <<Head(students)>> \o remove_first_student(Tail(students), student_id)
       ELSE Tail(students)

RECURSIVE remove_student(_, _)
remove_student(students, student_id) ==
  IF students = <<>> THEN <<>>
  ELSE IF Head(students).id # student_id
       THEN <<Head(students)>> \o remove_student(Tail(students), student_id)
       ELSE remove_student(Tail(students), student_id)

(* ------------------------------------------------------------------ *)
(* CSV interchange                                                      *)
(* ------------------------------------------------------------------ *)

\* The header is id,name,age,full-time; a data row is the sequence of its
\* cells.  csv.DictReader gives a short row None for the cells it lacks.
None == [none |-> TRUE, text |-> <<>>]
Cell(t) == [none |-> FALSE, text |-> t]

\* r.get(column): the k-th cell of the row
get(r, k) == IF k <= Len(r) THEN Cell(r[k]) ELSE None

PyTrue == <<"T", "r", "u", "e">>
PyFalse == <<"F", "a", "l", "s", "e">>
PyNone == <<"N", "o", "n", "e">>

\* str(value) of a cell, str(None) being "None"
str_cell(c) == IF c.none THEN PyNone ELSE c.text

TrueTexts ==
  { <<"1">>, <<"t", "r", "u", "e">>, <<"t">>, <<"y", "e", "s">>, <<"y">> }

\* _parse_bool comparing without lower()
_parse_bool_case_sensitive(val) == strip(val) \in TrueTexts

_parse_bool(val) == lower(strip(val)) \in TrueTexts

StudentText == <<"S", "t", "u", "d", "e", "n", "t">>

\* f"Student{n}"
placeholder(n) == StudentText \o str(n)

\* int(r.get(column, '')) under try/except ValueError: ok = FALSE is the
\* ValueError branch; a cell that is None raises TypeError, which nothing
\* catches
int_cell(c) ==
  IF c.none THEN [raised |-> TRUE, ok |-> FALSE, val |-> 0]
  ELSE LET v == int(c.text) IN [raised |-> FALSE, ok |-> v.ok, val |-> v.val]

\* name = r.get('name', '').strip() or f"Student{n}"; None.strip() raises
\* AttributeError
row_name(c, n) ==
  LET name == strip(c.text) IN IF name # <<>> THEN name ELSE placeholder(n)

\* age = int(r.get('age', '')), 0 on ValueError
row_age(age) == IF age.ok THEN age.val ELSE 0

\* full_time = _parse_bool(str(r.get('full-time', 'false')))
row_full_time(c) == _parse_bool(str_cell(c))

\* the row makes import_csv raise
row_raises(r) ==
  int_cell(get(r, 1)).raised \/ get(r, 2).none \/ int_cell(get(r, 3)).raised

Max(S) == CHOOSE m \in S : \A x \in S : x <= m

MaxOf(a, b) == IF a >= b THEN a ELSE b

\* merge mode: the row takes max_id + 1 instead of its own id
merge_reassigns(rid, existing_ids) == ~rid.ok \/ rid.val \in existing_ids

\* merge_rid recomputing the maximum from existing_ids for every row
merge_rid_recomputed(rid, existing_ids, max_id) ==
  IF merge_reassigns(rid, existing_ids)
  THEN Max(existing_ids \cup {0}) + 1
  ELSE rid.val

\* merge mode, lines 152-154: the id the row gets
merge_rid(rid, existing_ids, max_id) ==
  IF merge_reassigns(rid, existing_ids) THEN max_id + 1 ELSE rid.val

\* merge mode, line 153: max_id after the row
merge_max_id(rid, existing_ids, max_id) ==
  IF merge_reassigns(rid, existing_ids) THEN max_id + 1 ELSE max_id

\* merge mode, the loop from row i on.  raised = TRUE when a row raised:
\* the rows before it were appended to the store already.
RECURSIVE merge_loop(_, _, _, _, _)
merge_loop(rows, i, students, existing_ids, max_id) ==
  IF i > Len(rows) THEN [students |-> students, raised |-> FALSE]
  ELSE IF row_raises(rows[i]) THEN [students |-> students, raised |-> TRUE]
  ELSE LET r == rows[i]
           parsed == int_cell(get(r, 1))
           rid == merge_rid(parsed, existing_ids, max_id)
           s == Student(rid, row_name(get(r, 2), rid), row_age(int_cell(get(r, 3))),
                        row_full_time(get(r, 4)))
       IN merge_loop(rows, i + 1, Append(students, s), existing_ids \cup {rid},
                     merge_max_id(parsed, existing_ids, max_id))

\* merge mode, lines 144-163
import_merge(students, rows) ==
  merge_loop(rows, 1, students, Ids(students),
             IF Ids(students) = {} THEN 0 ELSE Max(Ids(students)))

\* replace mode, lines 135-136: the id the row gets
replace_rid(rid, seen_ids, next_id) ==
  IF ~rid.ok \/ rid.val \in seen_ids THEN next_id ELSE rid.val

\* replace_next_id counting rows instead of tracking the largest id kept
replace_next_id_counting(next_id, rid) == next_id + 1

\* replace mode, line 138
replace_next_id(next_id, rid) == MaxOf(next_id, rid + 1)

RECURSIVE replace_loop(_, _, _, _, _)
replace_loop(rows, i, new_list, seen_ids, next_id) ==
  IF i > Len(rows) THEN [students |-> new_list, raised |-> FALSE]
  ELSE IF row_raises(rows[i]) THEN [students |-> new_list, raised |-> TRUE]
  ELSE LET r == rows[i]
           rid == replace_rid(int_cell(get(r, 1)), seen_ids, next_id)
           s == Student(rid, row_name(get(r, 2), next_id),
                        row_age(int_cell(get(r, 3))), row_full_time(get(r, 4)))
       IN replace_loop(rows, i + 1, Append(new_list, s), seen_ids \cup {rid},
                       replace_next_id(next_id, rid))

\* sorted(new_list, key=lambda s: s['id']): a stable insertion sort
RECURSIVE insert_sorted(_, _)
insert_sorted(sorted, s) ==
  IF sorted = <<>> THEN <<s>>
  ELSE IF sorted[Len(sorted)].id <= s.id THEN Append(sorted, s)
  ELSE Append(insert_sorted(SubSeq(sorted, 1, Len(sorted) - 1), s),
              sorted[Len(sorted)])

RECURSIVE sorted_by_id(_)
sorted_by_id(students) ==
  IF students = <<>> THEN <<>>
  ELSE insert_sorted(sorted_by_id(SubSeq(students, 1, Len(students) - 1)),
                     students[Len(students)])

import_replace(rows) ==
  LET res == replace_loop(rows, 1, <<>>, {}, 1)
  IN [students |-> sorted_by_id(res.students), raised |-> res.raised]

\* export_csv, the rows written: str() of each field
export_rows(students) ==
  [i \in 1..Len(students) |->
     << str(students[i].id), students[i].name, str(students[i].age),
        IF students[i].full_time THEN PyTrue ELSE PyFalse >>]

(* ------------------------------------------------------------------ *)
(* History of the last operation, read by the properties                *)
(* ------------------------------------------------------------------ *)

\* the position of the interactive shell: at is the blocking input it waits
\* at, sid the record student_menu was opened for, then what follows a
\* pause(), caller who called ensure_students, ensured how the last
\* ensure_students returned
At(at, sid, then, caller, ensured) ==
  [at |-> at, sid |-> sid, then |-> then, caller |-> caller,
   ensured |-> ensured]

\* the functions are called directly, no shell runs
NoShell == At("api", 0, "", "", "")

NoCsv == [exists |-> FALSE, rows |-> <<>>]
CsvFile(rows) == [exists |-> TRUE, rows |-> rows]

\* op: the operation that led to this state; pre, preFile: the store and the
\* JSON file before it; ret: what make_new_student returned; sid: the id
\* remove_student was given; count: what import_csv returned; raised: it
\* raised instead; mode, src: its mode and the CSV file it read (for
\* export_csv, src is the CSV file written); args: the name, age and
\* full_time arguments change_student_info was given
Last(op) ==
  [op |-> op, pre |-> data, preFile |-> file, ret |-> <<>>, sid |-> 0,
   count |-> 0, raised |-> FALSE, mode |-> "", src |-> NoCsv,
   args |-> <<>>]

(* ------------------------------------------------------------------ *)
(* Record store and persistence: the program from its start             *)
(* ------------------------------------------------------------------ *)

NameA == <<"A">>
NameB == <<"B">>

\* what data.json may hold when the program starts; the last store is one
\* an earlier merge-mode import has written
InitStores ==
  { <<>>,
    <<Student(1, NameA, 7, TRUE)>>,
    <<Student(1, NameA, 7, TRUE), Student(2, NameB, 0, FALSE)>>,
    <<Student(10, <<"B", " ", "C">>, -3, TRUE)>> }

InitFiles == {MissingFile, CorruptFile} \cup {save_data(s) : s \in InitStores}

\* the module-level load, lines 11-19: an empty store unless the file exists
\* and decodes
Init ==
  /\ file \in InitFiles
  /\ data = IF file.kind = "valid" THEN json_load(file.doc) ELSE <<>>
  /\ last = [op |-> "init", pre |-> <<>>, preFile |-> file, ret |-> <<>>,
             sid |-> 0, count |-> 0, raised |-> FALSE, mode |-> "", src |-> NoCsv,
             args |-> <<>>]
  /\ pc = NoShell

CreateInputs == { <<NameA, 7, TRUE>>, <<NameB, 0, FALSE>>, <<<<>>, 7, TRUE>> }

MakeNewStudent ==
  /\ Len(data) < MaxStudents
  /\ \E in \in CreateInputs :
       LET s == make_new_student(data, in[1], in[2], in[3])
       IN /\ data' = Append(data, s)
          /\ last' = [Last("create") EXCEPT !.ret = <<s>>]
  /\ UNCHANGED <<file, pc>>

RemoveStudent ==
  /\ \E sid \in Ids(data) \cup {0} :
       /\ data' = remove_student(data, sid)
       /\ last' = [Last("delete") EXCEPT !.sid = sid]
  /\ UNCHANGED <<file, pc>>

SaveData ==
  /\ file' = save_data(data)
  /\ last' = Last("save")
  /\ UNCHANGED <<data, pc>>

LoadData ==
  /\ data' = load_data(data, file)
  /\ file' = load_data_file(data, file)
  /\ last' = Last("load")
  /\ UNCHANGED pc

\* the JSON file is removed or damaged from outside the program
ExternalRemove ==
  /\ file.kind # "missing"
  /\ file' = MissingFile
  /\ last' = Last("external")
  /\ UNCHANGED <<data, pc>>

ExternalCorrupt ==
  /\ file.kind # "corrupt"
  /\ file' = CorruptFile
  /\ last' = Last("external")
  /\ UNCHANGED <<data, pc>>

Next ==
  \/ MakeNewStudent
  \/ RemoveStudent
  \/ SaveData
  \/ LoadData
  \/ ExternalRemove
  \/ ExternalCorrupt

Spec == Init /\ [][Next]_vars

(* ------------------------------------------------------------------ *)
(* CSV interchange: one export or import, from any state of the store   *)
(* ------------------------------------------------------------------ *)

\* stores that create and delete operations lead to (the last one by way of
\* new_id after a delete)
StartStores ==
  { <<>>,
    <<Student(1, NameA, 7, TRUE)>>,
    <<Student(1, NameA, 7, TRUE), Student(2, NameB, 0, FALSE)>>,
    <<Student(2, NameB, 0, FALSE)>>,
    <<Student(1, NameA, 7, TRUE), Student(2, NameB, 0, FALSE),
      Student(3, NameA, 7, TRUE)>>,
    <<Student(2, NameB, 0, FALSE), Student(2, NameA, 7, TRUE)>>,
    <<Student(1, <<>>, 7, TRUE)>> }

\* the in-memory store and the JSON file need not agree: edits may be unsaved
InitCsv ==
  /\ data \in StartStores
  /\ file \in {MissingFile, CorruptFile} \cup {save_data(s) : s \in StartStores}
  /\ last = [op |-> "init", pre |-> <<>>, preFile |-> file, ret |-> <<>>,
             sid |-> 0, count |-> 0, raised |-> FALSE, mode |-> "", src |-> NoCsv,
             args |-> <<>>]
  /\ pc = NoShell

\* export_csv writing the in-memory store as it is, with no load_data()
ExportCsvUnsaved ==
  /\ UNCHANGED <<data, file, pc>>
  /\ last' = [Last("export") EXCEPT !.src = CsvFile(export_rows(data))]

\* export_csv: load_data(), then the rows are written
ExportCsv ==
  /\ data' = load_data(data, file)
  /\ file' = load_data_file(data, file)
  /\ last' = [Last("export") EXCEPT !.src = CsvFile(export_rows(data'))]
  /\ UNCHANGED pc

\* the data rows a CSV file may hold
RowPool ==
  { << <<"2">>, NameA, <<"7">>, PyTrue >>,
    << <<>>, <<>>, <<"x">>, <<"n", "o">> >>,
    << <<"x">>, <<" ", "B", " ">>, <<>>, <<"Y">> >>,
    << <<"-", "1">>, NameA, <<"-", "3">>, <<"T", "R", "U", "E">> >>,
    << <<" ", "2">>, NameB, <<"0">> >>,
    << <<"3">>, <<" ">>, <<"7">>, <<"t">> >>,
    << <<"2">> >> }

RECURSIVE BatchesOf(_)
BatchesOf(n) ==
  IF n = 0 THEN {<<>>}
  ELSE {<<>>} \cup {<<r>> \o b : r \in RowPool, b \in BatchesOf(n - 1)}

\* no file at csv_path, or a file with the header and up to MaxRows rows
CsvSources == {NoCsv} \cup {CsvFile(b) : b \in BatchesOf(MaxRows)}

\* import_csv(csv_path, mode) reading the CSV file src, from the in-memory
\* store students and the JSON file f: the store and the file it leaves, the
\* count it returns, and whether it raised instead of returning
import_csv(students, f, src, mode) ==
  LET loaded == load_data(students, f)
      loaded_file == load_data_file(students, f)
      res == IF mode = "replace" THEN import_replace(src.rows)
             ELSE import_merge(loaded, src.rows)
      fails == ~src.exists \/ src.rows = <<>>
      \* len(new_list), or added
      count == IF mode = "replace" THEN Len(res.students)
               ELSE Len(res.students) - Len(loaded)
  IN IF fails
     THEN [data |-> loaded, file |-> loaded_file, count |-> 0,
           raised |-> FALSE]
     ELSE IF res.raised
     THEN [data |-> IF mode = "replace" THEN loaded ELSE res.students,
           file |-> loaded_file, count |-> 0, raised |-> TRUE]
     ELSE [data |-> res.students, file |-> save_data(res.students),
           count |-> count, raised |-> FALSE]

\* a call of import_csv; op names the call in the history
ImportFrom(src, mode, op) ==
  \E r \in {import_csv(data, file, src, mode)} :
    /\ data' = r.data
    /\ file' = r.file
    /\ last' = [Last(op) EXCEPT !.mode = mode, !.src = src,
                                !.raised = r.raised, !.count = r.count]
    /\ UNCHANGED pc

\* import_csv(csv_path, mode) on any CSV file
ImportCsv(mode) == \E src \in CsvSources : ImportFrom(src, mode, "import")

\* no operation has run yet
Fresh == last.op = "init"

\* after an export the JSON file is emptied or removed from outside; the CSV
\* file that was written stays
ExternalEmpty ==
  /\ last.op = "export"
  /\ file' \in {ValidFile(<<>>), MissingFile}
  /\ last' = [Last("emptied") EXCEPT !.src = last.src]
  /\ UNCHANGED <<data, pc>>

\* import_csv(csv_path, 'merge') of the exported CSV file, the JSON file
\* holding no record
ReimportCsv ==
  /\ last.op = "emptied"
  /\ ImportFrom(last.src, "merge", "reimport")

NextCsv ==
  \/ Fresh /\ ExportCsv
  \/ Fresh /\ ImportCsv("merge")
  \/ Fresh /\ ImportCsv("replace")
  \/ ExternalEmpty
  \/ ReimportCsv

SpecCsv == InitCsv /\ [][NextCsv]_vars

(* ------------------------------------------------------------------ *)
(* Update: one change_student_info, from any state of the store         *)
(* ------------------------------------------------------------------ *)

\* an omitted argument (None) is <<>>, a provided one is <<value>>
UpdateInputs ==
  { <<name, age, full_time>> : name \in {<<>>, <<NameB>>},
                                age \in {<<>>, <<0>>},
                                full_time \in {<<>>, <<FALSE>>} }

ChangeStudentInfo ==
  /\ \E sid \in Ids(data) \cup {0}, in \in UpdateInputs :
       LET res == change_student_info(data, sid, in[1], in[2], in[3])
       IN /\ data' = res.students
          /\ last' = [Last("update") EXCEPT !.sid = sid, !.ret = res.ret,
                                            !.args = in]
  /\ UNCHANGED <<file, pc>>

NextUpdate == Fresh /\ ChangeStudentInfo

SpecUpdate == InitCsv /\ [][NextUpdate]_vars

(* ------------------------------------------------------------------ *)
(* The interactive shell: main, ensure_students, main_menu and          *)
(* student_menu.  A step runs from one blocking input to the next; the  *)
(* JSON file may be changed from outside while the shell waits          *)
(* ------------------------------------------------------------------ *)

\* str.isdigit()
isdigit(t) == AllDigits(t)

\* the test of ensure_students accepting any list, an empty one too
ensure_ok_any_list(students) == TRUE

\* data.get('students') and len(data['students']) > 0
ensure_ok(students) == Len(students) > 0

\* the CSV files the user names in the shell: none, one with no data row,
\* and one-row files (an own id, an unparseable id, a short row)
ShellRows ==
  { << <<"2">>, NameA, <<"7">>, PyTrue >>,
    << <<"x">>, NameA, <<"7">>, <<"n", "o">> >>,
    << <<"2">> >> }

ShellCsvSources == {NoCsv, CsvFile(<<>>)} \cup {CsvFile(<<r>>) : r \in ShellRows}

WithinBounds(students) ==
  /\ Len(students) <= MaxStudents
  /\ \A i \in 1..Len(students) : students[i].id <= MaxId

\* the program is started: the module-level load has run, main() has not
InitShell ==
  /\ file \in InitFiles
  /\ data = IF file.kind = "valid" THEN json_load(file.doc) ELSE <<>>
  /\ last = [op |-> "init", pre |-> <<>>, preFile |-> file, ret |-> <<>>,
             sid |-> 0, count |-> 0, raised |-> FALSE, mode |-> "", src |-> NoCsv,
             args |-> <<>>]
  /\ pc = At("start", 0, "", "", "")

\* pause(): the shell waits for Enter, then goes on with then
PauseThen(then) == At("pause", pc.sid, then, pc.caller, pc.ensured)

\* the top of main_menu's loop, from the store d and the file f: load_data(),
\* then ensure_students(), which loads again and returns if there is a
\* student and asks for a CSV path if there is none
MainLoop(d, f) ==
  LET d1 == load_data(d, f)
      f1 == load_data_file(d, f)
      d2 == load_data(d1, f1)
      f2 == load_data_file(d1, f1)
  IN /\ data' = d2
     /\ file' = f2
     /\ pc' = IF ensure_ok(d2) THEN At("main_prompt", 0, "", "", "loaded")
              ELSE At("ensure_input", 0, "", "menu", "")

\* the top of student_menu's loop: load_data(), find_student; the menu
\* returns to main_menu's loop when the record is gone
StudentLoop(d, f, sid) ==
  LET d1 == load_data(d, f)
      f1 == load_data_file(d, f)
  IN IF find_student(d1, sid) = 0
     THEN MainLoop(d1, f1)
     ELSE /\ data' = d1
          /\ file' = f1
          /\ pc' = At("student_prompt", sid, "", "", "")

\* main(): ensure_students(), then main_menu()
Main ==
  /\ pc.at = "start"
  /\ LET d1 == load_data(data, file)
         f1 == load_data_file(data, file)
     IN IF ensure_ok(d1)
        THEN MainLoop(d1, f1)
        ELSE /\ data' = d1
             /\ file' = f1
             /\ pc' = At("ensure_input", 0, "", "main", "")
  /\ last' = Last("main")

\* ensure_students' loop: a CSV path is entered, import_csv(path, 'merge')
EnsureImport ==
  /\ pc.at = "ensure_input"
  /\ \E src \in ShellCsvSources :
       \E r \in {import_csv(data, file, src, "merge")} :
          /\ WithinBounds(r.data)
          /\ data' = r.data
          /\ file' = r.file
          /\ pc' = IF r.raised THEN At("crashed", 0, "", "", "")
                   ELSE IF ensure_ok(r.data)
                   THEN At("pause", 0,
                           IF pc.caller = "main" THEN "main_loop"
                           ELSE "main_prompt",
                           pc.caller, "imported")
                   ELSE At("pause", 0, "ensure_input", pc.caller, "")
  /\ last' = Last("ensure_import")

\* Enter is pressed at a pause()
Pause ==
  /\ pc.at = "pause"
  /\ IF pc.then = "main_prompt"
     THEN /\ pc' = At("main_prompt", 0, "", pc.caller, pc.ensured)
          /\ UNCHANGED <<data, file>>
     ELSE IF pc.then = "ensure_input"
     THEN /\ pc' = At("ensure_input", 0, "", pc.caller, "")
          /\ UNCHANGED <<data, file>>
     ELSE IF pc.then = "main_loop" THEN MainLoop(data, file)
     ELSE IF pc.then = "student_loop" THEN StudentLoop(data, file, pc.sid)
     ELSE IF pc.then = "student_save"
     THEN StudentLoop(data, save_data(data), pc.sid)
     ELSE /\ pc' = At("exit", 0, "", "", "")
          /\ UNCHANGED <<data, file>>
  /\ last' = Last("pause")

\* main menu: list, or an unknown option
MainList ==
  /\ pc.at = "main_prompt"
  /\ pc' = PauseThen("main_loop")
  /\ last' = Last("list")
  /\ UNCHANGED <<data, file>>

EditInputs == {<<"x">>} \cup {str(i) : i \in 1..MaxId}

\* main menu: edit
MainEdit ==
  /\ pc.at = "main_prompt"
  /\ \E raw_id \in EditInputs :
       IF ~isdigit(raw_id)
       THEN /\ pc' = PauseThen("main_loop")
            /\ UNCHANGED <<data, file>>
       ELSE LET sid == int(raw_id).val
                d1 == load_data(data, file)
                f1 == load_data_file(data, file)
            IN IF find_student(d1, sid) = 0
               THEN /\ data' = d1
                    /\ file' = f1
                    /\ pc' = PauseThen("main_loop")
               ELSE StudentLoop(d1, f1, sid)
  /\ last' = Last("edit")

AddInputs == { <<NameA, <<"7">>, TRUE>>, <<NameA, <<"x">>, TRUE>> }

\* main menu: add
MainAdd ==
  /\ pc.at = "main_prompt"
  /\ \E in \in AddInputs :
       IF ~isdigit(in[2])
       THEN /\ pc' = PauseThen("main_loop")
            /\ UNCHANGED <<data, file>>
       ELSE LET d1 == load_data(data, file)
                s == make_new_student(d1, in[1], int(in[2]).val, in[3])
            IN /\ Len(d1) < MaxStudents
               /\ data' = Append(d1, s)
               /\ file' = save_data(Append(d1, s))
               /\ pc' = PauseThen("main_loop")
  /\ last' = Last("add")

\* main menu: export
MainExport ==
  /\ pc.at = "main_prompt"
  /\ data' = load_data(data, file)
  /\ file' = load_data_file(data, file)
  /\ pc' = PauseThen("main_loop")
  /\ last' = Last("export")

\* main menu: import, in the mode entered
MainImport ==
  /\ pc.at = "main_prompt"
  /\ \E src \in ShellCsvSources, mode \in {"merge", "replace"} :
       \E r \in {import_csv(data, file, src, mode)} :
          /\ WithinBounds(r.data)
          /\ data' = r.data
          /\ file' = r.file
          /\ pc' = IF r.raised THEN At("crashed", 0, "", "", "")
                   ELSE PauseThen("main_loop")
  /\ last' = Last("import")

\* main menu: save
MainSave ==
  /\ pc.at = "main_prompt"
  /\ file' = save_data(data)
  /\ pc' = PauseThen("main_loop")
  /\ last' = Last("save")
  /\ UNCHANGED data

\* main menu: quit, saving first if asked to
MainQuit ==
  /\ pc.at = "main_prompt"
  /\ \E save \in BOOLEAN :
       IF save
       THEN /\ file' = save_data(data)
            /\ pc' = PauseThen("exit")
       ELSE /\ pc' = At("exit", 0, "", "", "")
            /\ UNCHANGED file
  /\ last' = Last("quit")
  /\ UNCHANGED data

\* student menu: view, reload, or an unknown option
StudentView ==
  /\ pc.at = "student_prompt"
  /\ pc' = PauseThen("student_loop")
  /\ last' = Last("view")
  /\ UNCHANGED <<data, file>>

\* student menu: name; a blank input cancels; the store is saved after the
\* pause in either case
StudentName ==
  /\ pc.at = "student_prompt"
  /\ \E new_name \in {<<>>, NameB} :
       data' = IF new_name # <<>>
               THEN [data EXCEPT ![find_student(data, pc.sid)].name = new_name]
               ELSE data
  /\ pc' = PauseThen("student_save")
  /\ last' = Last("name")
  /\ UNCHANGED file

\* student menu: age
StudentAge ==
  /\ pc.at = "student_prompt"
  /\ \E new_age \in {<<>>, <<"x">>, <<"7">>} :
       data' = IF new_age # <<>> /\ isdigit(new_age)
               THEN [data EXCEPT ![find_student(data, pc.sid)].age =
                                    int(new_age).val]
               ELSE data
  /\ pc' = PauseThen("student_save")
  /\ last' = Last("age")
  /\ UNCHANGED file

\* student menu: toggle
StudentToggle ==
  /\ pc.at = "student_prompt"
  /\ data' = [data EXCEPT ![find_student(data, pc.sid)].full_time = ~@]
  /\ pc' = PauseThen("student_save")
  /\ last' = Last("toggle")
  /\ UNCHANGED file

\* student menu: delete; confirmed, the menu returns after its pause
StudentDelete ==
  /\ pc.at = "student_prompt"
  /\ \E confirm \in BOOLEAN :
       IF confirm
       THEN /\ data' = remove_student(data, data[find_student(data, pc.sid)].id)
            /\ file' = save_data(remove_student(data,
                                   data[find_student(data, pc.sid)].id))
            /\ pc' = PauseThen("main_loop")
       ELSE /\ pc' = PauseThen("student_loop")
            /\ UNCHANGED <<data, file>>
  /\ last' = Last("delete")

\* student menu: save
StudentSave ==
  /\ pc.at = "student_prompt"
  /\ file' = save_data(data)
  /\ pc' = PauseThen("student_loop")
  /\ last' = Last("save")
  /\ UNCHANGED data

\* student menu: quit
StudentQuit ==
  /\ pc.at = "student_prompt"
  /\ MainLoop(data, file)
  /\ last' = Last("back")

\* the JSON file is rewritten from outside with no student in it
ExternalNoStudents ==
  /\ file # ValidFile(<<>>)
  /\ file' = ValidFile(<<>>)
  /\ last' = Last("external")
  /\ UNCHANGED <<data, pc>>

NextShell ==
  \/ Main
  \/ EnsureImport
  \/ Pause
  \/ MainList
  \/ MainEdit
  \/ MainAdd
  \/ MainExport
  \/ MainImport
  \/ MainSave
  \/ MainQuit
  \/ StudentView
  \/ StudentName
  \/ StudentAge
  \/ StudentToggle
  \/ StudentDelete
  \/ StudentSave
  \/ StudentQuit
  \/ ExternalRemove
  \/ ExternalCorrupt
  \/ ExternalNoStudents

SpecShell == InitShell /\ [][NextShell]_vars

(* ------------------------------------------------------------------ *)
(* Properties                                                           *)
(* ------------------------------------------------------------------ *)

Imported == last.op = "import" /\ last.src.exists /\ last.src.rows # <<>>

\* the store import_csv works on: what its load_data() left
Reloaded == load_data(last.pre, last.preFile)

\* C1: after every operation of a sequence of create and delete operations
\* that starts from a store with unique ids, no two records share an id.
C1_IdsUnique == UniqueIds(data)

\* C5: create followed by find(returned.id) yields the record create returned.
C5_CreateThenFind ==
  last.op = "create" =>
    /\ find_student(data, last.ret[1].id) # 0
    /\ data[find_student(data, last.ret[1].id)] = last.ret[1]

\* C6: delete(id) followed by find(id) yields not-found; the records with
\* another id are all still there, with their values and in their order;
\* deleting an absent id changes nothing; the JSON file is not touched.
C6_DeleteFrame ==
  last.op = "delete" =>
    /\ find_student(data, last.sid) = 0
    /\ data = SelectSeq(last.pre, LAMBDA s : s.id # last.sid)
    /\ (last.sid \notin Ids(last.pre) => data = last.pre)
    /\ file = last.preFile

C6_Witness ==
  /\ last.op = "delete"
  /\ last.sid \in Ids(last.pre)
  /\ Len(data) >= 1

\* C9: save_data followed by load_data of the same file gives the store that
\* was saved: same records, same field values, same order.
C9_SaveLoadRoundTrip ==
  last.op = "save" =>
    /\ data = last.pre
    /\ file.kind = "valid"
    /\ load_data(<<>>, file) = last.pre
    /\ load_data_file(<<>>, file) = file

C9_Witness ==
  /\ last.op = "save"
  /\ Len(data) >= 2
  /\ file # last.preFile
  /\ \E i \in 1..Len(data) : data[i].full_time /\ data[i].id >= 10 /\ data[i].age < 0
  /\ \E i \in 1..Len(data) : ~data[i].full_time

\* C2: when the reloaded store has pairwise distinct ids, the store after a
\* completed merge-mode import has pairwise distinct ids.
C2_MergeKeepsIdsUnique ==
  (Imported /\ last.mode = "merge" /\ ~last.raised /\ UniqueIds(Reloaded))
    => UniqueIds(data)

\* C3 as claimed: import_csv of a missing CSV file or of one without data
\* rows returns 0 and leaves the store as it was before the call.
C3_FailedImportKeepsStore ==
  (last.op = "import" /\ ~Imported) =>
    /\ ~last.raised
    /\ last.count = 0
    /\ data = last.pre

\* C3 as amended: import_csv of a missing CSV file or of one without data rows
\* returns 0 and leaves the store as its reload leaves it: the content of the
\* JSON file when that is valid, the previous store when it is corrupt, an
\* empty store (and a newly written empty file) when it is missing; so the
\* store is as before the call whenever it had been saved.
C3_FailedImportReloads ==
  (last.op = "import" /\ ~Imported) =>
    /\ ~last.raised
    /\ last.count = 0
    /\ last.preFile.kind = "valid" => data = json_load(last.preFile.doc)
    /\ last.preFile.kind = "corrupt" => data = last.pre
    /\ last.preFile.kind = "missing" => data = <<>>
    /\ last.preFile.kind # "missing" => file = last.preFile
    /\ last.preFile.kind = "missing" => file = ValidFile(<<>>)
    /\ last.preFile = ValidFile(json_dump(last.pre)) => data = last.pre

C3_Witness ==
  /\ last.op = "import"
  /\ ~last.src.exists
  /\ last.preFile.kind = "valid"
  /\ last.pre # <<>>
  /\ data # last.pre

\* C4: every record of the store has an id >= 1 and an age >= 0.
C4_PositiveIdsNonNegativeAges ==
  \A i \in 1..Len(data) : data[i].id >= 1 /\ data[i].age >= 0

\* C7: an import of a CSV with at least one data row runs to completion
\* without raising, incorporates every row and rewrites the JSON file; it
\* never leaves some rows in memory and the file as it was.
C7_ImportAllOrNothing ==
  Imported =>
    /\ ~last.raised
    /\ last.count = Len(last.src.rows)
    /\ Len(data) = (IF last.mode = "merge" THEN Len(Reloaded) ELSE 0)
                   + Len(last.src.rows)
    /\ file = ValidFile(json_dump(data))

\* the rows hold at least their id, name and age cells
FullRows == \A j \in 1..Len(last.src.rows) : Len(last.src.rows[j]) >= 3

Bijections(n) ==
  {f \in [1..n -> 1..n] : \A i, j \in 1..n : f[i] = f[j] => i = j}

Collides(j) ==
  LET own == int(last.src.rows[j][1])
  IN \/ ~own.ok
     \/ own.val \in Ids(Reloaded)
     \/ \E i \in 1..(j - 1) : data[Len(Reloaded) + i].id = own.val

\* C10: in merge mode, with M the maximum id of the reloaded store (0 if it
\* is empty), the k-th row whose id is missing, unparseable or already
\* present gets the id M + k.
C10_SequentialResolution ==
  (Imported /\ last.mode = "merge" /\ ~last.raised) =>
    LET M == IF Reloaded = <<>> THEN 0 ELSE Max(Ids(Reloaded))
    IN \A j \in 1..Len(last.src.rows) :
         Collides(j) =>
           data[Len(Reloaded) + j].id
             = M + Cardinality({i \in 1..j : Collides(i)})

C10_Witness ==
  /\ Imported /\ last.mode = "merge" /\ ~last.raised
  /\ Len(last.src.rows) = 2
  /\ int(last.src.rows[1][1]).ok
  /\ int(last.src.rows[1][1]) = int(last.src.rows[2][1])
  /\ int(last.src.rows[1][1]).val \in Ids(Reloaded)
  /\ data[Len(Reloaded) + 1].id = Max(Ids(Reloaded)) + 1
  /\ data[Len(Reloaded) + 2].id = Max(Ids(Reloaded)) + 2

\* C11: when load_data finds the JSON file present but undecodable, the
\* in-memory store stays exactly as it was (it is not emptied) and the file
\* is not rewritten.
C11_CorruptLoadKeepsStore ==
  (last.op = "load" /\ last.preFile.kind = "corrupt") =>
    /\ data = last.pre
    /\ file = last.preFile

C11_Witness ==
  /\ last.op = "load"
  /\ last.preFile.kind = "corrupt"
  /\ Len(last.pre) >= 1
  /\ data = last.pre

\* C16: when load_data finds no JSON file, the in-memory store becomes empty
\* and the file is created holding the empty structure, so that the next
\* load_data of it succeeds and gives the empty store.
C16_MissingLoadCreatesFile ==
  (last.op = "load" /\ last.preFile.kind = "missing") =>
    /\ data = <<>>
    /\ file = ValidFile(<<>>)
    /\ load_data(data, file) = <<>>
    /\ load_data_file(data, file) = file

C16_Witness ==
  /\ last.op = "load"
  /\ last.preFile.kind = "missing"
  /\ Len(last.pre) >= 1
  /\ file.kind = "valid"

\* C14: change_student_info(id, ...) changes, on the record found with that
\* id and on no other, exactly the fields that were given: a field left out
\* keeps its value and every other record keeps all of its fields; the
\* changed record is returned; with an id that no record has it returns
\* not-found and the store is as it was.
C14_UpdateFrame ==
  last.op = "update" =>
    IF last.sid \in Ids(last.pre)
    THEN /\ Len(data) = Len(last.pre)
         /\ \E k \in 1..Len(data) :
              /\ last.pre[k].id = last.sid
              /\ \A j \in 1..Len(data) : j # k => data[j] = last.pre[j]
              /\ data[k].id = last.pre[k].id
              /\ data[k].name = IF last.args[1] # <<>> THEN last.args[1][1]
                                ELSE last.pre[k].name
              /\ data[k].age = IF last.args[2] # <<>> THEN last.args[2][1]
                               ELSE last.pre[k].age
              /\ data[k].full_time = IF last.args[3] # <<>>
                                     THEN last.args[3][1]
                                     ELSE last.pre[k].full_time
              /\ last.ret = <<data[k]>>
    ELSE /\ data = last.pre
         /\ last.ret = <<>>

\* an update that gave a new age only, on a store of two records
C14_Witness ==
  /\ last.op = "update"
  /\ Len(last.pre) = 2
  /\ last.sid \in Ids(last.pre)
  /\ last.args[1] = <<>> /\ last.args[2] # <<>> /\ last.args[3] = <<>>
  /\ data # last.pre

\* C12: export_csv writes what the JSON file holds, not the in-memory store:
\* when the JSON file exists and decodes, the rows written are that file's
\* records, one row each and in the file's order, the file is left as it is,
\* and after the export the in-memory store is the file's content, so edits
\* that were not saved are gone.
C12_ExportWritesFileState ==
  (last.op = "export" /\ last.preFile.kind = "valid") =>
    /\ data = json_load(last.preFile.doc)
    /\ file = last.preFile
    /\ last.src.exists
    /\ Len(last.src.rows) = Len(last.preFile.doc)
    /\ \A i \in 1..Len(last.src.rows) :
         last.src.rows[i] =
           << last.preFile.doc[i].id, last.preFile.doc[i].name,
              last.preFile.doc[i].age,
              IF last.preFile.doc[i].full_time = JsonTrue
              THEN PyTrue ELSE PyFalse >>

\* an export made when the store held records the file did not
C12_Witness ==
  /\ last.op = "export"
  /\ last.preFile.kind = "valid"
  /\ Len(last.src.rows) = 2
  /\ Len(last.pre) = 3
  /\ data # last.pre

\* C13: for every persisted store S, export_csv followed by
\* import_csv(merge) into an empty store gives as many records as S has, in
\* the same order, each with the name, age and full-time value it had in S,
\* and with the ids of S whenever the ids of S were unique.
C13_RoundTrip ==
  last.op = "reimport" =>
    /\ ~last.raised
    /\ Len(data) = Len(last.pre)
    /\ last.count = Len(last.pre)
    /\ \A i \in 1..Len(data) :
         /\ data[i].name = last.pre[i].name
         /\ data[i].age = last.pre[i].age
         /\ data[i].full_time = last.pre[i].full_time
         /\ UniqueIds(last.pre) => data[i].id = last.pre[i].id

\* the names import_csv takes as they are: not empty, no blank at either end
TrimmedNames(students) ==
  \A i \in 1..Len(students) :
    students[i].name # <<>> /\ strip(students[i].name) = students[i].name

\* C13 as amended: the round trip of C13 for every store whose names are not
\* empty and have no leading or trailing whitespace.
C13_RoundTripOfTrimmedNames ==
  (last.op = "reimport" /\ TrimmedNames(last.pre)) =>
    /\ ~last.raised
    /\ Len(data) = Len(last.pre)
    /\ last.count = Len(last.pre)
    /\ \A i \in 1..Len(data) :
         /\ data[i].name = last.pre[i].name
         /\ data[i].age = last.pre[i].age
         /\ data[i].full_time = last.pre[i].full_time
         /\ UniqueIds(last.pre) => data[i].id = last.pre[i].id

\* a store of three records came back as it was
C13_Witness ==
  /\ last.op = "reimport"
  /\ TrimmedNames(last.pre)
  /\ Len(last.pre) = 3
  /\ data = last.pre
  /\ file = save_data(data)

\* C15: a merge-mode import only appends: the reloaded store stays as the
\* unchanged prefix of the result, the new records follow it in the order of
\* the CSV rows, one record for each data row, and the call returns the
\* number of data rows.
C15_MergeAppends ==
  (Imported /\ last.mode = "merge") =>
    LET rows == last.src.rows
        n == Len(rows)
        L == Len(Reloaded)
    IN /\ ~last.raised
       /\ last.count = n
       /\ Len(data) = L + n
       /\ SubSeq(data, 1, L) = Reloaded
       /\ \A j \in 1..n :
            /\ data[L + j].age = (IF int(rows[j][3]).ok THEN int(rows[j][3]).val ELSE 0)
            /\ strip(rows[j][2]) # <<>> => data[L + j].name = strip(rows[j][2])
            /\ int(rows[j][1]).ok /\ ~Collides(j) => data[L + j].id = int(rows[j][1]).val

\* the counter and the ids as C17 describes them: the counter is 1 at the
\* first row and otherwise one more than the largest id kept so far; a row
\* keeps its own id unless that is missing, unparseable or already kept, and
\* then takes the counter's value
RECURSIVE C17_Counter(_, _), C17_Kept(_, _)
C17_Counter(rows, j) ==
  IF j = 1 THEN 1 ELSE 1 + Max({C17_Kept(rows, i) : i \in 1..(j - 1)})

C17_Kept(rows, j) ==
  LET own == int(rows[j][1])
  IN IF own.ok /\ own.val \notin {C17_Kept(rows, i) : i \in 1..(j - 1)}
     THEN own.val
     ELSE C17_Counter(rows, j)

\* C17: in replace mode a row whose trimmed name is empty is stored under
\* the name "Student" followed by the value the sequential counter has when
\* the row is processed (1 at the first row, otherwise one more than the
\* largest id kept so far), and that value is also the row's id whenever its
\* own id is missing, unparseable or a duplicate.
C17_PlaceholderFromCounter ==
  (Imported /\ last.mode = "replace" /\ ~last.raised) =>
    \A j \in 1..Len(last.src.rows) :
      strip(last.src.rows[j][2]) = <<>> =>
        \E i \in 1..Len(data) :
          /\ data[i].id = C17_Kept(last.src.rows, j)
          /\ data[i].name = placeholder(C17_Counter(last.src.rows, j))

\* C18: after every import that processed at least one data row, in merge
\* or replace mode, the JSON file holds exactly the in-memory store: no
\* import returns a non-zero count with memory and disk different, and none
\* is left with rows taken into memory that the file does not hold.
C18_ImportPersists ==
  (Imported /\ (~last.raised \/ Len(data) > Len(Reloaded))) =>
    /\ file = ValidFile(json_dump(data))
    /\ json_load(file.doc) = data

\* C19: the shell never shows the main menu over an empty store: whenever
\* it waits at the main-menu prompt, ensure_students has returned since the
\* last choice and the in-memory store holds at least one student, also
\* after the last student was deleted in the student menu or the JSON file
\* was emptied; as long as the store is empty the shell stays in
\* ensure_students, asking for a CSV file to import in merge mode.
C19_MainMenuHasStudents ==
  /\ pc.at = "main_prompt" => (pc.ensured # "" /\ Len(data) >= 1)
  /\ (pc.at = "pause" /\ pc.then = "main_prompt") => Len(data) >= 1
  /\ pc.at = "ensure_input" => data = <<>>

\* the main menu is shown again after the store was found empty inside
\* main_menu and refilled by the import ensure_students asked for
C19_Witness ==
  /\ pc.at = "main_prompt"
  /\ pc.ensured = "imported"
  /\ pc.caller = "menu"
  /\ Len(data) >= 1

====
